---- MODULE Spec2Model ----
(***************************************************************************)
(* Model of geyser_pack_converter.py: the Java -> Bedrock model-geometry   *)
(* translation pipeline of GeyserPackConverter.                            *)
(*                                                                         *)
(* JSON values are represented as follows.  A JSON object (Python dict) is *)
(* a function whose domain is a set of strings; the empty object is <<>>.  *)
(* A JSON array of numbers is a sequence of integers (Python index k is    *)
(* TLA+ index k+1).  A JSON number or null standing where the code expects *)
(* an object or an array is the value Scalar: every use of it as an object *)
(* or array raises in Python (AttributeError / TypeError).  Python's None  *)
(* as a return value is the value None.  A JSON number standing where the  *)
(* code expects a string is the value NumberValue; TLC cannot hold strings *)
(* and records in one set, so it is written as a string that no JSON       *)
(* string of the model equals.                                             *)
(***************************************************************************)
EXTENDS Integers, Sequences, FiniteSets, TLC

VARIABLES
    element,        \* SpecCube: the Java element handed to convert_element_to_cube
    cube,           \* SpecCube: what convert_element_to_cube returned
    cube_pc,        \* SpecCube: "input" before the call, "done" after it
    java_model,     \* SpecModel: the parsed document of the model file
    success,        \* SpecModel: what convert_java_model_to_bedrock returned
    model_pc,       \* SpecModel: "input" before the call, "done" after it
    files,          \* the files of bedrock_pack_dir: path -> document written
    pc,             \* Spec: the position of convert()
    item_files,     \* Spec: the item model files of the pack, in scan order
    cmd_items,      \* Spec: the result of scan_custom_model_data
    item_idx,       \* Spec: process_custom_models, index of the current item
    model_idx,      \* Spec: process_custom_models, index of the current override
    items_data,     \* Spec: self.items_data
    missing_models, \* Spec: self.missing_models
    processed,      \* Spec: history of the loop: output_name and outcome of
                    \*       every override processed so far
    mcpack,         \* Spec: the paths archived by create_mcpack
    model_file,     \* SpecTexture: the parsed document extract_texture_name reads
    texture_out,    \* SpecTexture: what extract_texture_name returned
    texture_pc,     \* SpecTexture: "input" before the call, "done" after it
    convert_all,    \* SpecMain: args.convert_all and input_path.is_dir()
    inputs,         \* SpecMain: the packs main() converts, in order
    input_idx,      \* SpecMain: index of the pack being converted
    main_pc,        \* SpecMain: the position of main()
    temp_dir,       \* SpecMain: converter.temp_dir, 0 for None
    temp_dirs,      \* SpecMain: the temporary directories existing on disk
    attempted,      \* SpecMain: the packs convert() was called for
    raised,         \* SpecMain: the exception propagating, "none" if none
    exit_code       \* SpecMain: what main() returned, -1 before it returns

cube_vars == <<element, cube, cube_pc>>
model_vars == <<java_model, success, model_pc>>
pack_vars == <<pc, item_files, cmd_items, item_idx, model_idx, items_data,
               missing_models, processed, mcpack>>
texture_vars == <<model_file, texture_out, texture_pc>>
main_vars == <<convert_all, inputs, input_idx, main_pc, temp_dir, temp_dirs,
               attempted, raised, exit_code>>
vars == <<element, cube, cube_pc, java_model, success, model_pc, files,
          pc, item_files, cmd_items, item_idx, model_idx, items_data,
          missing_models, processed, mcpack, model_file, texture_out,
          texture_pc, convert_all, inputs, input_idx, main_pc, temp_dir,
          temp_dirs, attempted, raised, exit_code>>

----------------------------------------------------------------------------
(* Bounds of the model *)

\* Coordinates of from/to are drawn from 0..MaxCoord
MaxCoord == 1

\* A model file holds at most MaxElements elements
MaxElements == 3

\* A display map holds at most MaxContexts display contexts
MaxContexts == 2

\* The item model files of a pack hold at most MaxOverrides overrides in all
MaxOverrides == 3

\* The textures object of a model file holds at most MaxTextures entries
MaxTextures == 2

\* The input directory of --convert-all holds at most MaxPacks ZIP files
MaxPacks == 3

----------------------------------------------------------------------------
(* JSON / Python helpers *)

EmptyDict == <<>>
Scalar == [scalar |-> TRUE]
None == [none |-> TRUE]
NotStarted == [not_started |-> TRUE]
NumberValue == "<number>"

IsDict(v) == "scalar" \notin DOMAIN v

\* dict.get(key, default)
Get(d, key, default) == IF key \in DOMAIN d THEN d[key] ELSE default

\* Python truthiness of a value that is a dict or a truthy scalar
Truthy(v) == v # EmptyDict

\* any(rot) for a list of numbers
any(rot) == \E k \in DOMAIN rot : rot[k] # 0

\* The variables of convert() while no pack is being converted
PackIdle ==
    /\ pc = "idle"
    /\ item_files = <<>>
    /\ cmd_items = <<>>
    /\ item_idx = 1
    /\ model_idx = 1
    /\ items_data = <<>>
    /\ missing_models = {}
    /\ processed = <<>>
    /\ mcpack = {}

\* The variables of extract_texture_name while it is not being called
TextureIdle ==
    /\ model_file = EmptyDict
    /\ texture_out = ""
    /\ texture_pc = "idle"

\* The variables of main() while it is not running
MainIdle ==
    /\ convert_all = FALSE
    /\ inputs = <<>>
    /\ input_idx = 1
    /\ main_pc = "idle"
    /\ temp_dir = 0
    /\ temp_dirs = {}
    /\ attempted = {}
    /\ raised = "none"
    /\ exit_code = -1

----------------------------------------------------------------------------
(* convert_element_to_cube *)

\* The per-face translation of [u0,v0,u1,v1]
FaceUV(uv) ==
    [uv |-> <<uv[1], uv[2]>>, uv_size |-> <<uv[3] - uv[1], uv[4] - uv[2]>>]

\* "uv" in face_data raises on a scalar; uv[0..3] raises on a short list
FaceRaises(face_data) ==
    \/ ~IsDict(face_data)
    \/ "uv" \in DOMAIN face_data /\ Len(face_data["uv"]) < 4

\* the loop over faces.items() without the '"uv" in face_data' test: a face
\* that has no uv is zero-filled
ConvertFaces_ZeroFill(faces) ==
    [f \in DOMAIN faces |->
        IF "uv" \in DOMAIN faces[f] THEN FaceUV(faces[f]["uv"])
        ELSE [uv |-> <<0, 0>>, uv_size |-> <<0, 0>>]]

\* the loop over faces.items(): only faces that carry "uv" get an entry
ConvertFaces(faces) ==
    LET with_uv == {f \in DOMAIN faces : "uv" \in DOMAIN faces[f]}
    IN  [f \in with_uv |-> FaceUV(faces[f]["uv"])]

\* The rotation vector with the angle negated on every axis
RotationVector_NegateZ(angle, axis) ==
    CASE axis = "x" -> <<-angle, 0, 0>>
      [] axis = "y" -> <<0, -angle, 0>>
      [] axis = "z" -> <<0, 0, -angle>>
      [] OTHER      -> <<0, 0, 0>>

\* The rotation vector computed from angle and axis
RotationVector(angle, axis) ==
    CASE axis = "x" -> <<-angle, 0, 0>>
      [] axis = "y" -> <<0, -angle, 0>>
      [] axis = "z" -> <<0, 0, angle>>
      [] OTHER      -> <<0, 0, 0>>

\* rotation.get on a truthy non-dict raises; pivot[0..2] raises on a short list
RotationRaises(rotation) ==
    /\ Truthy(rotation)
    /\ \/ ~IsDict(rotation)
       \/ Len(Get(rotation, "origin", <<8, 8, 8>>)) < 3

\* The "Handle rotation" block without the any(rot) test
ConvertRotation_AlwaysEmit(rotation) ==
    IF ~Truthy(rotation) THEN EmptyDict
    ELSE LET pivot == Get(rotation, "origin", <<8, 8, 8>>)
             angle == Get(rotation, "angle", 0)
             axis  == Get(rotation, "axis", "y")
         IN  ("pivot" :> <<-pivot[1] + 8, pivot[2], pivot[3] - 8>>)
             @@ ("rotation" :> RotationVector(angle, axis))

\* The keys added to the cube by the "Handle rotation" block
ConvertRotation(rotation) ==
    IF ~Truthy(rotation) THEN EmptyDict
    ELSE LET pivot == Get(rotation, "origin", <<8, 8, 8>>)
             angle == Get(rotation, "angle", 0)
             axis  == Get(rotation, "axis", "y")
             rot   == RotationVector(angle, axis)
         IN  ("pivot" :> <<-pivot[1] + 8, pivot[2], pivot[3] - 8>>)
             @@ (IF any(rot) THEN ("rotation" :> rot) ELSE EmptyDict)

\* origin = [-to_pos[0] + 8, from_pos[1], from_pos[2] - 8], with the X flip
\* taken from the wrong corner
CubeOrigin_FromCorner(from_pos, to_pos) ==
    <<-from_pos[1] + 8, from_pos[2], from_pos[3] - 8>>

\* "Calculate Bedrock coordinates (flip X and Z)"
CubeOrigin(from_pos, to_pos) ==
    <<-to_pos[1] + 8, from_pos[2], from_pos[3] - 8>>

CubeSize(from_pos, to_pos) ==
    <<to_pos[1] - from_pos[1], to_pos[2] - from_pos[2], to_pos[3] - from_pos[3]>>

\* Any exception inside the try block
ElementRaises(e) ==
    \/ ~IsDict(e)
    \/ Len(Get(e, "from", <<0, 0, 0>>)) < 3
    \/ Len(Get(e, "to", <<1, 1, 1>>)) < 3
    \/ ~IsDict(Get(e, "faces", EmptyDict))
    \/ \E f \in DOMAIN Get(e, "faces", EmptyDict) :
           FaceRaises(Get(e, "faces", EmptyDict)[f])
    \/ RotationRaises(Get(e, "rotation", EmptyDict))

convert_element_to_cube(e) ==
    IF ElementRaises(e) THEN None
    ELSE LET from_pos == Get(e, "from", <<0, 0, 0>>)
             to_pos   == Get(e, "to", <<1, 1, 1>>)
             faces    == Get(e, "faces", EmptyDict)
             rotation == Get(e, "rotation", EmptyDict)
             origin   == CubeOrigin(from_pos, to_pos)
             size     == CubeSize(from_pos, to_pos)
         IN  [origin |-> origin, size |-> size, uv |-> ConvertFaces(faces)]
             @@ ConvertRotation(rotation)

----------------------------------------------------------------------------
(* Inputs of SpecCube *)

Coord == 0..MaxCoord
Vec3 == {<<a, b, c>> : a \in Coord, b \in Coord, c \in Coord}
ShortVec == <<0, 0>>

\* {} or {key: v} for v in S
Opt(key, S) == {EmptyDict} \cup {key :> v : v \in S}

FaceNames == {"north", "up"}
UVSamples == {<<2, 4, 10, 12>>, <<16, 0, 0, 16>>}
FaceDataSamples ==
    {[uv |-> uv, texture |-> "#0"] : uv \in UVSamples}
    \cup {[texture |-> "#0"], Scalar, [uv |-> <<1, 2>>]}
FaceMaps ==
    UNION {[S -> FaceDataSamples] : S \in SUBSET FaceNames} \cup {Scalar}

Angles == {-45, 0, 45}
Axes == {"x", "y", "z", "w"}
Pivots == {<<0, 16, 4>>, ShortVec}
Rotations ==
    {o @@ a @@ x : o \in Opt("origin", Pivots), a \in Opt("angle", Angles),
                   x \in Opt("axis", Axes)} \cup {Scalar}

FewVecs == {<<0, 0, 0>>, <<16, 16, 16>>}
FewFaceMaps == {"north" :> [uv |-> <<2, 4, 10, 12>>, texture |-> "#0"],
                "up" :> Scalar}
FewRotations == {[origin |-> <<8, 8, 8>>, angle |-> 45, axis |-> "x"], Scalar}

Compose(F, T, FM, R) ==
    {f @@ t @@ m @@ r : f \in Opt("from", F), t \in Opt("to", T),
                        m \in Opt("faces", FM), r \in Opt("rotation", R)}

\* Every combination of corners, of face maps and of rotations, each with a
\* few well-formed and malformed samples of the other parts
Elements ==
    Compose(Vec3 \cup {ShortVec}, Vec3 \cup {ShortVec}, FewFaceMaps, FewRotations)
    \cup Compose(FewVecs, FewVecs, FaceMaps, FewRotations)
    \cup Compose(FewVecs, FewVecs, FewFaceMaps, Rotations)
    \cup {Scalar}

----------------------------------------------------------------------------
(* SpecCube: convert_element_to_cube applied to any element *)

CubeInit ==
    /\ element \in Elements
    /\ cube = NotStarted
    /\ cube_pc = "input"
    /\ java_model = EmptyDict
    /\ success = FALSE
    /\ model_pc = "idle"
    /\ files = EmptyDict
    /\ PackIdle
    /\ TextureIdle
    /\ MainIdle

ConvertElement ==
    /\ cube_pc = "input"
    /\ cube' = convert_element_to_cube(element)
    /\ cube_pc' = "done"
    /\ UNCHANGED <<element, model_vars, files, pack_vars, texture_vars,
                   main_vars>>

CubeNext == ConvertElement

SpecCube == CubeInit /\ [][CubeNext]_vars

----------------------------------------------------------------------------
(* convert_java_model_to_bedrock and the asset writers it calls.           *)
(* A list (elements) is a sequence.  The display map, whose iteration      *)
(* order matters, is the sequence of its items [context, transform] with   *)
(* pairwise distinct contexts; the empty map is <<>>.                      *)

\* json.load failed, or the document is not a JSON object
Unparsable == [unparsable |-> TRUE]

\* with open(path, 'w') ...: json.dump(document, f)
WriteFile(fs, path, document) == (path :> document) @@ fs

geo_file(output_name) == "models/entity/" \o output_name \o ".geo.json"
rc_file(output_name) ==
    "render_controllers/" \o output_name \o ".render_controller.json"
anim_file(output_name) == "animations/animation." \o output_name \o ".json"
attachable_file(output_name) ==
    "attachables/" \o output_name \o ".attachable.json"

\* The loop over elements without the per-element try: the first malformed
\* element ends the loop
RECURSIVE ConvertElements_StopAtMalformed(_)
ConvertElements_StopAtMalformed(elements) ==
    IF elements = <<>> THEN <<>>
    ELSE LET c == convert_element_to_cube(Head(elements))
         IN  IF c = None THEN <<>>
             ELSE <<c>> \o ConvertElements_StopAtMalformed(Tail(elements))

\* for i, element in enumerate(elements): ... bone["cubes"].append(cube)
RECURSIVE ConvertElements(_)
ConvertElements(elements) ==
    IF elements = <<>> THEN <<>>
    ELSE LET c == convert_element_to_cube(Head(elements))
         IN  (IF c # None THEN <<c>> ELSE <<>>)
             \o ConvertElements(Tail(elements))

\* The bone list that always holds the bone "main", even without cubes
Bones_AlwaysMain(elements) ==
    <<[name |-> "main", pivot |-> <<0, 0, 0>>,
       cubes |-> ConvertElements(elements)]>>

\* "Convert elements to bones/cubes"
Bones(elements) ==
    IF elements = <<>> THEN <<>>
    ELSE LET cubes == ConvertElements(elements)
         IN  IF cubes # <<>>
             THEN <<[name |-> "main", pivot |-> <<0, 0, 0>>, cubes |-> cubes]>>
             ELSE <<>>

\* bedrock_geometry
BedrockGeometry(output_name, texture_size, bones) ==
    [format_version |-> "1.12.0"] @@
    ("minecraft:geometry" :>
        <<[description |->
              [identifier |-> "geometry." \o output_name,
               texture_width |-> texture_size[1],
               texture_height |-> texture_size[2],
               visible_bounds_width |-> "2.0",
               visible_bounds_height |-> "2.5",
               visible_bounds_offset |-> <<"0", "0.75", "0">>],
           bones |-> bones]>>)

\* The render controller binding the geometry named after the texture
RenderController_GeometryOfTexture(output_name, texture_name) ==
    [format_version |-> "1.8.0",
     render_controllers |->
        ("controller.render." \o output_name) :>
            [geometry |-> "geometry." \o texture_name,
             materials |-> <<("*" :> "material.default")>>,
             textures |-> <<texture_name>>]]

RenderController(output_name, texture_name) ==
    [format_version |-> "1.8.0",
     render_controllers |->
        ("controller.render." \o output_name) :>
            [geometry |-> "geometry." \o output_name,
             materials |-> <<("*" :> "material.default")>>,
             textures |-> <<texture_name>>]]

create_render_controller(fs, output_name, texture_name) ==
    WriteFile(fs, rc_file(output_name),
              RenderController(output_name, texture_name))

\* str.lower() on the context names of the model
Lower(s) ==
    CASE s = "GUI" -> "gui"
      [] s = "Head" -> "head"
      [] OTHER -> s

\* bone_data without the "if ... in transform" tests: an absent key is
\* zero-filled
BoneData_ZeroFill(transform) ==
    [position |-> Get(transform, "translation", <<0, 0, 0>>),
     rotation |-> Get(transform, "rotation", <<0, 0, 0>>),
     scale |-> Get(transform, "scale", <<0, 0, 0>>)]

\* bone_data of one display context
BoneData(transform) ==
    (IF "translation" \in DOMAIN transform
        THEN "position" :> transform["translation"] ELSE EmptyDict)
    @@ (IF "rotation" \in DOMAIN transform
        THEN "rotation" :> transform["rotation"] ELSE EmptyDict)
    @@ (IF "scale" \in DOMAIN transform
        THEN "scale" :> transform["scale"] ELSE EmptyDict)

\* The bones of the animation after the loop over display.items(): a later
\* context with the same lower-cased name replaces an earlier one
RECURSIVE AnimationBones(_)
AnimationBones(display) ==
    IF display = <<>> THEN EmptyDict
    ELSE LET last == display[Len(display)]
             rest == AnimationBones(SubSeq(display, 1, Len(display) - 1))
             bone_name == Lower(last.context)
             bone_data == BoneData(last.transform)
         IN  IF bone_data # EmptyDict
             THEN (bone_name :> bone_data) @@ rest
             ELSE rest

\* '"translation" in transform' raises on a number or null
AnimationRaises(display) ==
    \E i \in DOMAIN display : ~IsDict(display[i].transform)

Animation(output_name, bones) ==
    [format_version |-> "1.8.0",
     animations |->
        ("animation." \o output_name) :> [loop |-> TRUE, bones |-> bones]]

create_animation(fs, output_name, display) ==
    WriteFile(fs, anim_file(output_name),
              Animation(output_name, AnimationBones(display)))

\* The hand-pose bones with the left hand posed as the right hand
DefaultBones_NotMirrored ==
    [thirdperson_righthand |-> [rotation |-> <<0, -90, 25>>],
     thirdperson_lefthand |-> [rotation |-> <<0, -90, 25>>],
     firstperson_righthand |-> [rotation |-> <<0, -90, 25>>],
     firstperson_lefthand |-> [rotation |-> <<0, -90, 25>>]]

\* default_animation["animations"][...]["bones"]
DefaultBones ==
    [thirdperson_righthand |-> [rotation |-> <<0, -90, 25>>],
     thirdperson_lefthand |-> [rotation |-> <<0, 90, -25>>],
     firstperson_righthand |-> [rotation |-> <<0, -90, 25>>],
     firstperson_lefthand |-> [rotation |-> <<0, 90, -25>>]]

create_default_animation(fs, output_name) ==
    WriteFile(fs, anim_file(output_name), Animation(output_name, DefaultBones))

Attachable(output_name, texture_name) ==
    [format_version |-> "1.10.0"] @@
    ("minecraft:attachable" :>
        [description |->
            [identifier |-> "custom:" \o output_name,
             materials |-> [default |-> "entity",
                            enchanted |-> "entity_emissive"],
             textures |-> [default |-> "textures/" \o texture_name,
                           enchanted |-> "textures/" \o texture_name],
             geometry |-> [default |-> "geometry." \o output_name],
             animations |-> [wield |-> "animation." \o output_name],
             render_controllers |-> <<"controller.render." \o output_name>>,
             enable_attachables |-> TRUE],
         components |->
            ("minecraft:render_controllers" :>
                [default |-> "controller.render." \o output_name])])

create_attachable(fs, output_name, texture_name, base_item) ==
    WriteFile(fs, attachable_file(output_name),
              Attachable(output_name, texture_name))

\* texture_size[0] / texture_size[1] raise on a list shorter than 2
TextureSizeRaises(texture_size) == Len(texture_size) < 2

\* The whole of convert_java_model_to_bedrock: the files after the call and
\* the value returned.  An exception leaves the files written before it.
convert_java_model_to_bedrock(fs, model, output_name, texture_name, base_item) ==
    IF model = Unparsable THEN [ok |-> FALSE, files |-> fs]
    ELSE
    LET texture_size == Get(model, "texture_size", <<16, 16>>)
        elements == Get(model, "elements", <<>>)
        display == Get(model, "display", EmptyDict)
        bones == Bones(elements)
    IN  IF TextureSizeRaises(texture_size) THEN [ok |-> FALSE, files |-> fs]
        ELSE
        LET fs1 == WriteFile(fs, geo_file(output_name),
                             BedrockGeometry(output_name, texture_size, bones))
            fs2 == create_render_controller(fs1, output_name, texture_name)
        IN  IF display # EmptyDict /\ AnimationRaises(display)
            THEN [ok |-> FALSE, files |-> fs2]
            ELSE
            LET fs3 == IF display # EmptyDict
                       THEN create_animation(fs2, output_name, display)
                       ELSE create_default_animation(fs2, output_name)
            IN  [ok |-> TRUE,
                 files |-> create_attachable(fs3, output_name, texture_name,
                                             base_item)]

----------------------------------------------------------------------------
(* Inputs of SpecModel *)

\* Two well-formed elements and two malformed ones
GoodElementA == [from |-> <<0, 0, 0>>, to |-> <<16, 16, 16>>]
GoodElementB ==
    [from |-> <<4, 0, 4>>, to |-> <<12, 2, 12>>,
     faces |-> [north |-> [uv |-> <<2, 4, 10, 12>>]],
     rotation |-> [origin |-> <<8, 8, 8>>, angle |-> 45, axis |-> "y"]]
BadElementShort == [from |-> <<0, 0>>, to |-> <<16, 16, 16>>]
ElementSamples == {GoodElementA, GoodElementB, BadElementShort, Scalar}

RECURSIVE SeqsUpTo(_, _)
SeqsUpTo(S, n) ==
    IF n = 0 THEN {<<>>}
    ELSE LET shorter == SeqsUpTo(S, n - 1)
         IN  shorter \cup {Append(q, x) : q \in shorter, x \in S}

ElementLists == SeqsUpTo(ElementSamples, MaxElements)

Contexts == {"GUI", "gui", "firstperson_righthand"}
Transforms ==
    {EmptyDict,
     [rotation |-> <<1, 2, 3>>],
     [translation |-> <<0, 3, 1>>, scale |-> <<2, 2, 2>>],
     [translation |-> <<4, 5, 6>>, rotation |-> <<7, 8, 9>>,
      scale |-> <<1, 1, 1>>],
     Scalar}
DisplayItems == [context : Contexts, transform : Transforms]
Displays ==
    {d \in SeqsUpTo(DisplayItems, MaxContexts) :
        \A i, j \in DOMAIN d : i # j => d[i].context # d[j].context}

TextureSizes == {<<32, 64>>, <<16>>}
FewElementLists == {<<GoodElementA>>, <<Scalar>>}
FewDisplays == {<<[context |-> "GUI", transform |-> [rotation |-> <<1, 2, 3>>]]>>}

ComposeModel(TS, EL, D) ==
    {t @@ e @@ d : t \in Opt("texture_size", TS), e \in Opt("elements", EL),
                   d \in Opt("display", D)}

\* Every element list and every display map, each with a few samples of the
\* other fields; and a file that does not parse
JavaModels ==
    ComposeModel(TextureSizes, ElementLists, FewDisplays)
    \cup ComposeModel(TextureSizes, FewElementLists, Displays)
    \cup {Unparsable}

\* The arguments of the call under SpecModel
ModelOutputName == "stick_cmd1"
ModelTextureName == "item/ruby"
ModelBaseItem == "stick"

----------------------------------------------------------------------------
(* SpecModel: convert_java_model_to_bedrock applied to any model document *)

ModelInit ==
    /\ java_model \in JavaModels
    /\ success = FALSE
    /\ model_pc = "input"
    /\ files = EmptyDict
    /\ element = EmptyDict
    /\ cube = NotStarted
    /\ cube_pc = "idle"
    /\ PackIdle
    /\ TextureIdle
    /\ MainIdle

ConvertModel ==
    /\ model_pc = "input"
    /\ \E r \in {convert_java_model_to_bedrock(files, java_model,
                    ModelOutputName, ModelTextureName, ModelBaseItem)} :
           /\ success' = r.ok
           /\ files' = r.files
    /\ model_pc' = "done"
    /\ UNCHANGED <<java_model, cube_vars, pack_vars, texture_vars, main_vars>>

ModelNext == ConvertModel

SpecModel == ModelInit /\ [][ModelNext]_vars

----------------------------------------------------------------------------
(* The pack conversion: scan_custom_model_data, process_custom_models,     *)
(* generate_geyser_mappings and create_mcpack as convert() runs them.      *)
(* An ordered dict is the sequence of its items; Python's None for a       *)
(* namespace is NoNamespace.                                               *)

NoNamespace == ""

Digit(d) ==
    CASE d = 0 -> "0" [] d = 1 -> "1" [] d = 2 -> "2" [] d = 3 -> "3"
      [] d = 4 -> "4" [] d = 5 -> "5" [] d = 6 -> "6" [] d = 7 -> "7"
      [] d = 8 -> "8" [] d = 9 -> "9"

RECURSIVE NatStr(_)
NatStr(n) == IF n < 10 THEN Digit(n) ELSE NatStr(n \div 10) \o Digit(n % 10)

\* str(n) of an integer, as the f-string and str() format it
Str(n) == IF n < 0 THEN "-" \o NatStr(-n) ELSE NatStr(n)

\* s.split(":", 1) on the references of the pack: whether s holds a colon,
\* and the parts before and after the first one
ColonSplit(s) ==
    CASE s = "custom:item/ruby" ->
            [colon |-> TRUE, before |-> "custom", after |-> "item/ruby"]
      [] s = "other:item/ext" ->
            [colon |-> TRUE, before |-> "other", after |-> "item/ext"]
      [] s = "a:b:c" ->
            [colon |-> TRUE, before |-> "a", after |-> "b:c"]
      [] OTHER -> [colon |-> FALSE, before |-> s, after |-> s]

\* The model files of the pack: path -> parsed document.  The textures map is
\* the sequence of its items.
PackModels ==
    ("assets/custom/models/item/ruby.json" :>
        [textures |-> <<[key |-> "layer0", value |-> "custom:item/ruby"]>>,
         elements |-> <<[from |-> <<0, 0, 0>>, to |-> <<16, 16, 16>>], Scalar>>,
         display |-> <<[context |-> "GUI",
                        transform |-> [rotation |-> <<1, 2, 3>>]]>>])
    @@ ("assets/minecraft/models/item/plain.json" :>
        [textures |-> <<[key |-> "particle", value |-> "item/plain"]>>,
         texture_size |-> <<32, 32>>,
         elements |-> <<[from |-> <<4, 0, 4>>, to |-> <<12, 2, 12>>]>>])
    @@ ("assets/minecraft/models/item/broken.json" :>
        [textures |-> <<[key |-> "0", value |-> "item/broken"]>>,
         texture_size |-> <<16>>])

\* model_path.exists()
Exists(path) == path \in DOMAIN PackModels

NoPath == ""

\* ":" in model_ref raises TypeError on a number
FindModelFileRaises(model_ref) == model_ref = NumberValue

find_model_file(model_ref) ==
    LET parts == ColonSplit(model_ref)
        namespace == IF parts.colon THEN parts.before ELSE "minecraft"
        path == IF parts.colon THEN parts.after ELSE model_ref
        model_path == "assets/" \o namespace \o "/models/" \o path \o ".json"
    IN  IF Exists(model_path) THEN model_path ELSE NoPath

\* textures.get(key), with None as ""
TexturesGet(textures, key) ==
    IF \E i \in DOMAIN textures : textures[i].key = key
    THEN textures[CHOOSE i \in DOMAIN textures : textures[i].key = key].value
    ELSE ""

\* textures.get("layer0") or textures.get("0") or next(iter(values), "")
TextureRef(textures) ==
    IF TexturesGet(textures, "layer0") # ""
    THEN TexturesGet(textures, "layer0")
    ELSE IF TexturesGet(textures, "0") # ""
         THEN TexturesGet(textures, "0")
         ELSE IF textures = <<>> THEN "" ELSE textures[1].value

\* The texture reference returned with its namespace prefix
extract_texture_name_KeepPrefix(model) ==
    IF model = Unparsable THEN "missing_texture"
    ELSE LET texture_ref == TextureRef(Get(model, "textures", <<>>))
         IN  IF texture_ref = NumberValue THEN "missing_texture"
             ELSE texture_ref

\* ":" in texture_ref raises on a number; except Exception: "missing_texture"
extract_texture_name(model) ==
    IF model = Unparsable THEN "missing_texture"
    ELSE LET texture_ref == TextureRef(Get(model, "textures", <<>>))
         IN  IF texture_ref = NumberValue THEN "missing_texture"
             ELSE IF ColonSplit(texture_ref).colon
                  THEN ColonSplit(texture_ref).after
                  ELSE texture_ref

\* cmd_items[item_name].append(info), creating the entry on first use
AppendModel(items, item_name, info) ==
    IF \E i \in DOMAIN items : items[i].item_name = item_name
    THEN [i \in DOMAIN items |->
            IF items[i].item_name = item_name
            THEN [items[i] EXCEPT !.models = Append(@, info)]
            ELSE items[i]]
    ELSE Append(items, [item_name |-> item_name, models |-> <<info>>])

\* override.get / predicate.get raise on a non-object
OverrideRaises(override) ==
    \/ ~IsDict(override)
    \/ ~IsDict(Get(override, "predicate", EmptyDict))

\* custom_model_data is not None and model_ref
Qualifies(override) ==
    /\ "custom_model_data" \in DOMAIN Get(override, "predicate", EmptyDict)
    /\ Get(override, "model", "") # ""

\* for override in overrides: ... ; an exception ends the file, keeping what
\* was appended before it
RECURSIVE ScanOverrides(_, _, _, _)
ScanOverrides(items, item_name, namespace, overrides) ==
    IF overrides = <<>> THEN items
    ELSE LET override == Head(overrides)
         IN  IF OverrideRaises(override) THEN items
             ELSE ScanOverrides(
                    IF Qualifies(override)
                    THEN AppendModel(items, item_name,
                            [custom_model_data |->
                                override["predicate"]["custom_model_data"],
                             model |-> override["model"],
                             namespace |-> IF namespace # "minecraft"
                                           THEN namespace ELSE NoNamespace])
                    ELSE items,
                    item_name, namespace, Tail(overrides))

\* for namespace_dir ...: for item_file in models_dir.glob("*.json"): ...
RECURSIVE ScanFiles(_, _)
ScanFiles(items, item_file_seq) ==
    IF item_file_seq = <<>> THEN items
    ELSE LET item_file == Head(item_file_seq)
             scanned ==
                 IF item_file.data = Unparsable THEN items
                 ELSE ScanOverrides(items, item_file.stem, item_file.namespace,
                                    Get(item_file.data, "overrides", <<>>))
         IN  ScanFiles(scanned, Tail(item_file_seq))

scan_custom_model_data(item_file_seq) == ScanFiles(<<>>, item_file_seq)

\* The output name built from the item name alone
OutputName_ItemOnly(item_name, custom_model_data) == item_name \o "_cmd"

\* output_name = f"{item_name}_cmd{custom_model_data}"
OutputName(item_name, custom_model_data) ==
    item_name \o "_cmd" \o Str(custom_model_data)

\* str.title() of the item names of the pack
Title(s) ==
    CASE s = "stick" -> "Stick"
      [] s = "bow" -> "Bow"
      [] OTHER -> s

\* item["name"].replace("_", " ").title(), for name = <base_item>_cmd<n>
DisplayName(item) ==
    Title(item.base_item) \o " Cmd" \o Str(item.custom_model_data)

MappingEntry(item) ==
    [custom_model_data |-> Str(item.custom_model_data),
     bedrock_identifier |-> "custom:" \o item.name,
     display_name |-> DisplayName(item),
     texture |-> item.texture,
     geometry |-> "geometry." \o item.name]

\* The groups built with the newest entry first
RECURSIVE BaseItems_NewestFirst(_)
BaseItems_NewestFirst(items) ==
    IF items = <<>> THEN EmptyDict
    ELSE LET item == items[Len(items)]
             rest == BaseItems_NewestFirst(SubSeq(items, 1, Len(items) - 1))
             base_item == "minecraft:" \o item.base_item
         IN  (base_item :>
                (<<MappingEntry(item)>> \o Get(rest, base_item, <<>>)))
             @@ rest

\* base_items after the loop over self.items_data
RECURSIVE BaseItems(_)
BaseItems(items) ==
    IF items = <<>> THEN EmptyDict
    ELSE LET item == items[Len(items)]
             rest == BaseItems(SubSeq(items, 1, Len(items) - 1))
             base_item == "minecraft:" \o item.base_item
         IN  (base_item :>
                Append(Get(rest, base_item, <<>>), MappingEntry(item)))
             @@ rest

GeyserMappings(items) == [format_version |-> 2, items |-> BaseItems(items)]

mappings_file == "geyser_mappings.json"

----------------------------------------------------------------------------
(* SpecTexture: extract_texture_name applied to any model file *)

TextureKeys == {"layer0", "0", "particle"}

\* Texture references: empty, with a namespace, without one, with two
\* colons, and a number where a string is expected
TextureValues == {"", "custom:item/ruby", "item/plain", "a:b:c", NumberValue}

TextureEntries == {[key |-> k, value |-> v] : k \in TextureKeys,
                                              v \in TextureValues}

\* The textures objects of at most n entries, in the order of the document
TextureMaps(n) ==
    {t \in SeqsUpTo(TextureEntries, n) :
        \A i, j \in DOMAIN t : i # j => t[i].key # t[j].key}

\* The model files: unreadable, without a textures object, or with one
TextureModels(n) ==
    {Unparsable, [elements |-> <<>>]}
        \cup {[textures |-> t] : t \in TextureMaps(n)}

TextureInit ==
    /\ model_file \in TextureModels(MaxTextures)
    /\ texture_out = ""
    /\ texture_pc = "input"
    /\ element = EmptyDict
    /\ cube = NotStarted
    /\ cube_pc = "idle"
    /\ java_model = EmptyDict
    /\ success = FALSE
    /\ model_pc = "idle"
    /\ files = EmptyDict
    /\ PackIdle
    /\ MainIdle

ExtractTextureName ==
    /\ texture_pc = "input"
    /\ texture_out' = extract_texture_name(model_file)
    /\ texture_pc' = "done"
    /\ UNCHANGED <<model_file, cube_vars, model_vars, files, pack_vars,
                   main_vars>>

TextureNext == ExtractTextureName

SpecTexture == TextureInit /\ [][TextureNext]_vars

----------------------------------------------------------------------------
(* Inputs of Spec: the item model files of the pack *)

OverrideSamples ==
    {[predicate |-> [custom_model_data |-> 1], model |-> "custom:item/ruby"],
     [predicate |-> [custom_model_data |-> 12], model |-> "custom:item/ruby"],
     [predicate |-> [custom_model_data |-> 1], model |-> "item/plain"],
     [predicate |-> [custom_model_data |-> -1], model |-> "other:item/ext"],
     [predicate |-> [custom_model_data |-> 3], model |-> "item/absent"],
     [predicate |-> [custom_model_data |-> 0], model |-> "item/broken"],
     [predicate |-> [custom_model_data |-> 2], model |-> NumberValue],
     [predicate |-> [damaged |-> 1], model |-> "custom:item/ruby"],
     Scalar}

\* The content of an item file holding at most n overrides
ItemFileData(n) ==
    {Unparsable} \cup {[overrides |-> l] : l \in SeqsUpTo(OverrideSamples, n)}

NumOverrides(data) == IF data = Unparsable THEN 0 ELSE Len(data["overrides"])

\* Three item files, two of them for the same item in different namespaces
PackItemFiles(d1, d2, d3) ==
    <<[namespace |-> "minecraft", stem |-> "stick", data |-> d1],
      [namespace |-> "custom", stem |-> "stick", data |-> d2],
      [namespace |-> "minecraft", stem |-> "bow", data |-> d3]>>

----------------------------------------------------------------------------
(* Spec: convert() from the scan to the .mcpack *)

\* The pack holds at most MaxOverrides overrides in all
Init ==
    /\ \E d1 \in ItemFileData(MaxOverrides) :
       \E d2 \in ItemFileData(MaxOverrides - NumOverrides(d1)) :
       \E d3 \in ItemFileData(MaxOverrides - NumOverrides(d1)
                                            - NumOverrides(d2)) :
           item_files = PackItemFiles(d1, d2, d3)
    /\ pc = "scan"
    /\ cmd_items = <<>>
    /\ item_idx = 1
    /\ model_idx = 1
    /\ items_data = <<>>
    /\ missing_models = {}
    /\ processed = <<>>
    /\ mcpack = {}
    /\ files = EmptyDict
    /\ element = EmptyDict
    /\ cube = NotStarted
    /\ cube_pc = "idle"
    /\ java_model = EmptyDict
    /\ success = FALSE
    /\ model_pc = "idle"
    /\ TextureIdle
    /\ MainIdle

\* cmd_items = self.scan_custom_model_data(); if cmd_items: ... else: log
ScanCustomModelData ==
    /\ pc = "scan"
    /\ cmd_items' = scan_custom_model_data(item_files)
    /\ pc' = IF cmd_items' # <<>> THEN "process" ELSE "mcpack"
    /\ UNCHANGED <<item_files, item_idx, model_idx, items_data, missing_models,
                   processed, mcpack, files, cube_vars, model_vars,
                   texture_vars, main_vars>>

\* The missing-set holding the last reference only
AddMissing_LastOnly(missing, model_ref) == {model_ref}

\* self.missing_models.add(model_ref)
AddMissing(missing, model_ref) == missing \cup {model_ref}

\* One iteration of the inner loop of process_custom_models.  Nothing in
\* process_custom_models or convert() catches an exception of
\* find_model_file: it leaves the loop and convert()
ProcessOverride ==
    /\ pc = "process"
    /\ LET item_name == cmd_items[item_idx].item_name
           models == cmd_items[item_idx].models
           model_info == models[model_idx]
           custom_model_data == model_info.custom_model_data
           model_ref == model_info.model
           namespace == model_info.namespace
           output_name == OutputName(item_name, custom_model_data)
       IN  IF FindModelFileRaises(model_ref)
           THEN /\ pc' = "aborted"
                /\ processed' =
                     Append(processed,
                            [item_name |-> item_name,
                             custom_model_data |-> custom_model_data,
                             model |-> model_ref,
                             output_name |-> output_name,
                             outcome |-> "raised"])
                /\ UNCHANGED <<files, items_data, missing_models, item_idx,
                               model_idx>>
           ELSE
           LET model_path == find_model_file(model_ref)
               found == model_path # NoPath /\ Exists(model_path)
               texture_name ==
                   IF found THEN extract_texture_name(PackModels[model_path])
                   ELSE ""
           IN
           \E r \in {IF found
                      THEN convert_java_model_to_bedrock(files,
                              PackModels[model_path], output_name,
                              texture_name, item_name)
                      ELSE [ok |-> FALSE, files |-> files]} :
           /\ files' = r.files
           /\ items_data' =
                IF found /\ r.ok
                THEN Append(items_data,
                        [name |-> output_name,
                         base_item |-> item_name,
                         custom_model_data |-> custom_model_data,
                         texture |-> texture_name,
                         namespace |-> IF namespace # NoNamespace
                                       THEN namespace ELSE "minecraft"])
                ELSE items_data
           /\ missing_models' =
                IF found THEN missing_models
                ELSE AddMissing(missing_models, model_ref)
           /\ processed' =
                Append(processed,
                       [item_name |-> item_name,
                        custom_model_data |-> custom_model_data,
                        model |-> model_ref,
                        output_name |-> output_name,
                        outcome |-> IF ~found THEN "missing"
                                    ELSE IF r.ok THEN "converted"
                                         ELSE "failed"])
           /\ IF model_idx < Len(models)
              THEN /\ model_idx' = model_idx + 1
                   /\ UNCHANGED <<item_idx, pc>>
              ELSE IF item_idx < Len(cmd_items)
                   THEN /\ item_idx' = item_idx + 1
                        /\ model_idx' = 1
                        /\ UNCHANGED pc
                   ELSE /\ pc' = "mappings"
                        /\ UNCHANGED <<item_idx, model_idx>>
    /\ UNCHANGED <<item_files, cmd_items, mcpack, cube_vars, model_vars,
                   texture_vars, main_vars>>

GenerateGeyserMappings ==
    /\ pc = "mappings"
    /\ files' = WriteFile(files, mappings_file, GeyserMappings(items_data))
    /\ pc' = "mcpack"
    /\ UNCHANGED <<item_files, cmd_items, item_idx, model_idx, items_data,
                   missing_models, processed, mcpack, cube_vars, model_vars,
                   texture_vars, main_vars>>

CreateMcpack ==
    /\ pc = "mcpack"
    /\ mcpack' = DOMAIN files
    /\ pc' = "done"
    /\ UNCHANGED <<item_files, cmd_items, item_idx, model_idx, items_data,
                   missing_models, processed, files, cube_vars, model_vars,
                   texture_vars, main_vars>>

Next ==
    \/ ScanCustomModelData
    \/ ProcessOverride
    \/ GenerateGeyserMappings
    \/ CreateMcpack

Spec == Init /\ [][Next]_vars

----------------------------------------------------------------------------
(* SpecMain: main(), one pack or every ZIP file of a directory *)

\* What convert() does with a pack: "ok" returns, "invalid" fails
\* validate_input, "extract_raises" raises in extractall, "body_raises"
\* raises after extract_java_pack (as process_custom_models can)
ZipPacks ==
    [kind : {"zip"},
     outcome : {"ok", "invalid", "extract_raises", "body_raises"}]

\* A directory passes validate_input and is used in place
DirPacks == [kind : {"dir"}, outcome : {"ok", "body_raises"}]

\* A path that does not exist, and a file that is not a ZIP archive
OtherInputs ==
    {[kind |-> "missing", outcome |-> "invalid"],
     [kind |-> "file", outcome |-> "invalid"]}

MainInit ==
    /\ convert_all \in BOOLEAN
    /\ inputs \in IF convert_all
                  THEN SeqsUpTo(ZipPacks, MaxPacks)
                  ELSE {<<p>> : p \in ZipPacks \cup DirPacks \cup OtherInputs}
    /\ input_idx = 1
    /\ main_pc = "start"
    /\ temp_dir = 0
    /\ temp_dirs = {}
    /\ attempted = {}
    /\ raised = "none"
    /\ exit_code = -1
    /\ element = EmptyDict
    /\ cube = NotStarted
    /\ cube_pc = "idle"
    /\ java_model = EmptyDict
    /\ success = FALSE
    /\ model_pc = "idle"
    /\ files = EmptyDict
    /\ PackIdle
    /\ TextureIdle

\* if not zip_files: return 1 / if not input_path.exists(): return 1
MainStart ==
    /\ main_pc = "start"
    /\ IF \/ convert_all /\ inputs = <<>>
          \/ ~convert_all /\ inputs[1].kind = "missing"
       THEN /\ exit_code' = 1
            /\ main_pc' = "returned"
       ELSE /\ main_pc' = "enter"
            /\ UNCHANGED exit_code
    /\ UNCHANGED <<convert_all, inputs, input_idx, temp_dir, temp_dirs,
                   attempted, raised>>
    /\ UNCHANGED <<cube_vars, model_vars, files, pack_vars, texture_vars>>

\* with GeyserPackConverter(...) as converter: converter.convert()
EnterConverter ==
    /\ main_pc = "enter"
    /\ temp_dir' = 0
    /\ attempted' = attempted \cup {input_idx}
    /\ main_pc' = "validate"
    /\ UNCHANGED <<convert_all, inputs, input_idx, temp_dirs, raised,
                   exit_code>>
    /\ UNCHANGED <<cube_vars, model_vars, files, pack_vars, texture_vars>>

\* if not self.validate_input(): raise ValueError
ValidateInput ==
    /\ main_pc = "validate"
    /\ IF inputs[input_idx].outcome = "invalid"
       THEN /\ raised' = "ValueError"
            /\ main_pc' = "exit"
       ELSE /\ main_pc' = "extract"
            /\ UNCHANGED raised
    /\ UNCHANGED <<convert_all, inputs, input_idx, temp_dir, temp_dirs,
                   attempted, exit_code>>
    /\ UNCHANGED <<cube_vars, model_vars, files, pack_vars, texture_vars>>

\* extract_java_pack: a ZIP file gets a temporary directory before
\* extractall, a directory is used in place
ExtractJavaPack ==
    /\ main_pc = "extract"
    /\ IF inputs[input_idx].kind = "zip"
       THEN /\ temp_dir' = input_idx
            /\ temp_dirs' = temp_dirs \cup {input_idx}
       ELSE UNCHANGED <<temp_dir, temp_dirs>>
    /\ IF inputs[input_idx].outcome = "extract_raises"
       THEN /\ raised' = "Exception"
            /\ main_pc' = "exit"
       ELSE /\ main_pc' = "body"
            /\ UNCHANGED raised
    /\ UNCHANGED <<convert_all, inputs, input_idx, attempted, exit_code>>
    /\ UNCHANGED <<cube_vars, model_vars, files, pack_vars, texture_vars>>

\* The rest of convert(), from read_pack_info to its return
ConvertBody ==
    /\ main_pc = "body"
    /\ raised' = IF inputs[input_idx].outcome = "body_raises"
                 THEN "Exception" ELSE "none"
    /\ main_pc' = "exit"
    /\ UNCHANGED <<convert_all, inputs, input_idx, temp_dir, temp_dirs,
                   attempted, exit_code>>
    /\ UNCHANGED <<cube_vars, model_vars, files, pack_vars, texture_vars>>

\* Ctrl-C while convert() runs, delivered between its steps
KeyboardInterrupt ==
    /\ main_pc \in {"validate", "extract", "body"}
    /\ raised' = "KeyboardInterrupt"
    /\ main_pc' = "exit"
    /\ UNCHANGED <<convert_all, inputs, input_idx, temp_dir, temp_dirs,
                   attempted, exit_code>>
    /\ UNCHANGED <<cube_vars, model_vars, files, pack_vars, texture_vars>>

\* __exit__ leaving every temporary directory in place
RemoveTempDir_Keep(dirs, dir) == dirs

\* if self.temp_dir and self.temp_dir.exists(): shutil.rmtree(self.temp_dir)
RemoveTempDir(dirs, dir) ==
    IF dir # 0 /\ dir \in dirs THEN dirs \ {dir} ELSE dirs

\* __exit__, then the next zip_file of the loop, the end of the try block,
\* or the except clauses when an exception is propagating
ExitConverter ==
    /\ main_pc = "exit"
    /\ temp_dirs' = RemoveTempDir(temp_dirs, temp_dir)
    /\ IF raised # "none"
       THEN /\ main_pc' = "except"
            /\ UNCHANGED input_idx
       ELSE IF convert_all /\ input_idx < Len(inputs)
            THEN /\ main_pc' = "enter"
                 /\ input_idx' = input_idx + 1
            ELSE /\ main_pc' = "finished"
                 /\ UNCHANGED input_idx
    /\ UNCHANGED <<convert_all, inputs, temp_dir, attempted, raised,
                   exit_code>>
    /\ UNCHANGED <<cube_vars, model_vars, files, pack_vars, texture_vars>>

\* return 0 after the try block, return 1 from every except clause
MainReturn ==
    /\ main_pc \in {"except", "finished"}
    /\ exit_code' = IF main_pc = "except" THEN 1 ELSE 0
    /\ main_pc' = "returned"
    /\ UNCHANGED <<convert_all, inputs, input_idx, temp_dir, temp_dirs,
                   attempted, raised>>
    /\ UNCHANGED <<cube_vars, model_vars, files, pack_vars, texture_vars>>

MainNext ==
    \/ MainStart
    \/ EnterConverter
    \/ ValidateInput
    \/ ExtractJavaPack
    \/ ConvertBody
    \/ KeyboardInterrupt
    \/ ExitConverter
    \/ MainReturn

SpecMain == MainInit /\ [][MainNext]_vars

----------------------------------------------------------------------------
(* Properties of convert_element_to_cube, checked under SpecCube *)

Converted == cube_pc = "done"

\* The element is an object whose from and to are both given as 3-vectors
HasCorners ==
    /\ IsDict(element)
    /\ "from" \in DOMAIN element /\ Len(element["from"]) = 3
    /\ "to" \in DOMAIN element /\ Len(element["to"]) = 3

ElementFaces == Get(element, "faces", EmptyDict)
ElementRotation == Get(element, "rotation", EmptyDict)

\* The faces or the rotation of the element make the conversion raise
OtherPartsRaise ==
    \/ ~IsDict(ElementFaces)
    \/ \E f \in DOMAIN ElementFaces : FaceRaises(ElementFaces[f])
    \/ RotationRaises(ElementRotation)

\* C1: for an element with from=[a,b,c] and to=[d,e,f] whose faces and
\* rotation are well-formed, the conversion returns a cube with
\* origin = [-d+8, b, c-8] and size = [d-a, e-b, f-c], whatever the order of
\* the corners; it returns None only when the faces or the rotation raise.
C1_CoordinateMapping ==
    (Converted /\ HasCorners) =>
        LET a == element["from"][1]
            b == element["from"][2]
            c == element["from"][3]
            d == element["to"][1]
            e == element["to"][2]
            f == element["to"][3]
        IN  IF OtherPartsRaise THEN cube = None
            ELSE /\ cube # None
                 /\ cube["origin"] = <<-d + 8, b, c - 8>>
                 /\ cube["size"] = <<d - a, e - b, f - c>>

\* C1 witness: a cube was returned for corners with to[0] < from[0], and its
\* size keeps the negative component.
C1_Witness ==
    /\ Converted /\ HasCorners /\ cube # None
    /\ element["to"][1] < element["from"][1]
    /\ cube["size"][1] < 0

\* The element carries a rotation object with origin, angle and axis
HasFullRotation ==
    /\ IsDict(element) /\ "rotation" \in DOMAIN element
    /\ IsDict(element["rotation"])
    /\ {"origin", "angle", "axis"} \subseteq DOMAIN element["rotation"]
    /\ Len(element["rotation"]["origin"]) = 3

\* C2: for a rotation {origin:[px,py,pz], angle:A, axis:X} with A # 0 and X
\* one of x, y, z, the cube's pivot is [-px+8, py, pz-8] and its rotation is
\* [-A,0,0] for x, [0,-A,0] for y and [0,0,A] for z.
C2_RotationSign ==
    (Converted /\ cube # None /\ HasFullRotation
        /\ element["rotation"]["angle"] # 0
        /\ element["rotation"]["axis"] \in {"x", "y", "z"}) =>
        LET p == element["rotation"]["origin"]
            A == element["rotation"]["angle"]
            X == element["rotation"]["axis"]
        IN  /\ "pivot" \in DOMAIN cube
            /\ cube["pivot"] = <<-p[1] + 8, p[2], p[3] - 8>>
            /\ "rotation" \in DOMAIN cube
            /\ X = "x" => cube["rotation"] = <<-A, 0, 0>>
            /\ X = "y" => cube["rotation"] = <<0, -A, 0>>
            /\ X = "z" => cube["rotation"] = <<0, 0, A>>

\* C2 witness: a rotation of 45 about z was converted and kept its sign.
C2_Witness ==
    /\ Converted /\ cube # None /\ HasFullRotation
    /\ element["rotation"]["angle"] = 45
    /\ element["rotation"]["axis"] = "z"
    /\ cube["rotation"] = <<0, 0, 45>>

\* C3: a rotation whose angle is 0 (given or defaulted), or whose axis is
\* none of x, y, z, yields a cube without a rotation key, and a rotation key
\* that is present holds a vector with a non-zero component.
C3_ZeroSuppression ==
    (Converted /\ cube # None) =>
        /\ (/\ IsDict(ElementRotation)
            /\ \/ Get(ElementRotation, "angle", 0) = 0
               \/ Get(ElementRotation, "axis", "y") \notin {"x", "y", "z"})
           => "rotation" \notin DOMAIN cube
        /\ "rotation" \in DOMAIN cube =>
               \E k \in 1..3 : cube["rotation"][k] # 0

\* C3 witness: a rotation object with angle 0 about x was converted: the
\* cube has its pivot and no rotation key.
C3_Witness ==
    /\ Converted /\ cube # None /\ HasFullRotation
    /\ element["rotation"]["angle"] = 0
    /\ element["rotation"]["axis"] = "x"
    /\ "pivot" \in DOMAIN cube
    /\ "rotation" \notin DOMAIN cube

\* The faces of the element that carry a uv
FacesWithUV == {f \in DOMAIN ElementFaces : "uv" \in DOMAIN ElementFaces[f]}

\* Each converted face holds {uv:[u0,v0], uv_size:[u1-u0, v1-v0]}
FaceEntriesTranslated ==
    \A f \in DOMAIN cube["uv"] \cap FacesWithUV :
        LET uv == ElementFaces[f]["uv"]
        IN  cube["uv"][f] = [uv |-> <<uv[1], uv[2]>>,
                             uv_size |-> <<uv[3] - uv[1], uv[4] - uv[2]>>]

\* C4 as stated: the face keys of the cube's uv map are the faces present in
\* the element, each translated to {uv, uv_size}.
C4_Original_FaceKeysEqualFaces ==
    (Converted /\ cube # None) =>
        /\ DOMAIN cube["uv"] = DOMAIN ElementFaces
        /\ FaceEntriesTranslated

\* C4 as amended: the face keys of the cube's uv map are the faces of the
\* element that carry a uv, each translated to
\* {uv:[u0,v0], uv_size:[u1-u0, v1-v0]}; a face without uv gets no entry.
C4_FaceKeysEqualFacesWithUV ==
    (Converted /\ cube # None) =>
        /\ DOMAIN cube["uv"] = FacesWithUV
        /\ FaceEntriesTranslated

\* C4 witness: an element with one face that has a uv and one that has none
\* was converted; only the first is in the cube's uv map.
C4_Witness ==
    /\ Converted /\ cube # None
    /\ FacesWithUV # {}
    /\ DOMAIN ElementFaces \ FacesWithUV # {}
    /\ DOMAIN cube["uv"] = FacesWithUV

----------------------------------------------------------------------------
(* Properties of convert_java_model_to_bedrock, checked under SpecModel *)

ModelConverted == model_pc = "done"

ModelElements == Get(java_model, "elements", <<>>)
ModelDisplay == Get(java_model, "display", EmptyDict)

\* The document parses and nothing but its elements may be malformed
OnlyElementsMayBeMalformed ==
    /\ java_model # Unparsable
    /\ Len(Get(java_model, "texture_size", <<16, 16>>)) >= 2
    /\ \A i \in DOMAIN ModelDisplay : IsDict(ModelDisplay[i].transform)

IsWellFormed(e) == ~ElementRaises(e)
WellFormedElements == SelectSeq(ModelElements, IsWellFormed)

\* The bones of the geometry document written for the model
WrittenBones ==
    files[geo_file(ModelOutputName)]["minecraft:geometry"][1].bones

\* C5: when the element list mixes well-formed and malformed elements, the
\* conversion succeeds and the cubes of its single bone are the conversions
\* of the well-formed elements, in their original order; every malformed
\* element converts to None.
C5_MalformedElementsDropped ==
    (/\ ModelConverted /\ OnlyElementsMayBeMalformed
     /\ \E i \in DOMAIN ModelElements : ~IsWellFormed(ModelElements[i])
     /\ \E i \in DOMAIN ModelElements : IsWellFormed(ModelElements[i])) =>
        /\ success
        /\ geo_file(ModelOutputName) \in DOMAIN files
        /\ \A i \in DOMAIN ModelElements :
               ~IsWellFormed(ModelElements[i]) =>
                   convert_element_to_cube(ModelElements[i]) = None
        /\ Len(WrittenBones) = 1
        /\ WrittenBones[1].cubes =
               [k \in 1..Len(WellFormedElements) |->
                   convert_element_to_cube(WellFormedElements[k])]

\* C5 witness: a list with a malformed element between two different
\* well-formed ones was converted into a bone of two cubes.
C5_Witness ==
    /\ ModelConverted /\ OnlyElementsMayBeMalformed /\ success
    /\ Len(ModelElements) = 3
    /\ IsWellFormed(ModelElements[1])
    /\ ~IsWellFormed(ModelElements[2])
    /\ IsWellFormed(ModelElements[3])
    /\ ModelElements[1] # ModelElements[3]
    /\ Len(WrittenBones[1].cubes) = 2

\* C6: for a model in which nothing but elements may be malformed, the
\* geometry document is written and the conversion returns success; its bone
\* list is empty exactly when no element survives (empty or absent list
\* included) and otherwise holds exactly one bone, "main" with pivot
\* [0,0,0], with one cube per surviving element.
C6_SingleMainBone ==
    (ModelConverted /\ OnlyElementsMayBeMalformed) =>
        LET surviving ==
                {i \in DOMAIN ModelElements : IsWellFormed(ModelElements[i])}
        IN  /\ success
            /\ geo_file(ModelOutputName) \in DOMAIN files
            /\ IF surviving = {} THEN WrittenBones = <<>>
               ELSE /\ Len(WrittenBones) = 1
                    /\ WrittenBones[1].name = "main"
                    /\ WrittenBones[1].pivot = <<0, 0, 0>>
                    /\ Len(WrittenBones[1].cubes) = Cardinality(surviving)

\* C6 witness: a non-empty element list of which no element survived was
\* converted with success into a geometry document without bones.
C6_Witness ==
    /\ ModelConverted /\ success
    /\ ModelElements # <<>>
    /\ \A i \in DOMAIN ModelElements : ~IsWellFormed(ModelElements[i])
    /\ WrittenBones = <<>>

\* The animation document written for the model
WrittenAnimation == files[anim_file(ModelOutputName)]
WrittenAnimationBones ==
    WrittenAnimation.animations["animation." \o ModelOutputName].bones

\* C9: a model whose display is empty or absent yields the looping animation
\* animation.<outputName> with exactly the four hand bones, rotation
\* [0,-90,25] on the right-hand bones and [0,90,-25] on the left-hand bones,
\* and nothing else.
C9_DefaultAnimation ==
    (/\ ModelConverted /\ OnlyElementsMayBeMalformed
     /\ ModelDisplay = EmptyDict) =>
        /\ success
        /\ anim_file(ModelOutputName) \in DOMAIN files
        /\ WrittenAnimation =
              [format_version |-> "1.8.0",
               animations |->
                  ("animation." \o ModelOutputName) :>
                     [loop |-> TRUE,
                      bones |->
                        [thirdperson_righthand |-> [rotation |-> <<0, -90, 25>>],
                         thirdperson_lefthand |-> [rotation |-> <<0, 90, -25>>],
                         firstperson_righthand |-> [rotation |-> <<0, -90, 25>>],
                         firstperson_lefthand |-> [rotation |-> <<0, 90, -25>>]]]]

\* C9 witness: a model without a display key was converted and its animation
\* holds the four hand bones.
C9_Witness ==
    /\ ModelConverted /\ success
    /\ java_model # Unparsable
    /\ "display" \notin DOMAIN java_model
    /\ DOMAIN WrittenAnimationBones =
          {"thirdperson_righthand", "thirdperson_lefthand",
           "firstperson_righthand", "firstperson_lefthand"}

\* The transform keys of a display context and the bone keys they map to
TransformKeys == {"translation", "rotation", "scale"}
BoneKey(k) == IF k = "translation" THEN "position" ELSE k

\* Bone b is the verbatim copy of transform t, present keys only
IsCopyOf(b, t) ==
    /\ DOMAIN b = {BoneKey(k) : k \in TransformKeys \cap DOMAIN t}
    /\ \A k \in TransformKeys \cap DOMAIN t : b[BoneKey(k)] = t[k]

\* A non-empty display map was converted into an animation
DisplayConverted ==
    /\ ModelConverted /\ OnlyElementsMayBeMalformed
    /\ ModelDisplay # EmptyDict

\* C10 as stated: one bone entry per display context, named by the
\* lower-cased context, the copy of the context's transform.
C10_Original_OneBonePerContext ==
    DisplayConverted =>
        /\ success
        /\ WrittenAnimation.animations["animation." \o ModelOutputName].loop
        /\ Cardinality(DOMAIN WrittenAnimationBones) = Len(ModelDisplay)
        /\ \A i \in DOMAIN ModelDisplay :
               /\ Lower(ModelDisplay[i].context) \in DOMAIN WrittenAnimationBones
               /\ IsCopyOf(WrittenAnimationBones[Lower(ModelDisplay[i].context)],
                           ModelDisplay[i].transform)

\* The contexts that carry at least one of translation, rotation, scale
CarryingContexts ==
    {i \in DOMAIN ModelDisplay :
        TransformKeys \cap DOMAIN ModelDisplay[i].transform # {}}

\* C10 as amended: a non-empty display map yields a looping animation whose
\* bones are the lower-cased names of the contexts that carry at least one
\* of translation, rotation, scale (a context with none of them gets no
\* bone); each bone is the verbatim copy (translation -> position, rotation
\* -> rotation, scale -> scale, present keys only) of the last such context,
\* in iteration order, with that lower-cased name.
C10_BonesOfCarryingContexts ==
    DisplayConverted =>
        /\ success
        /\ WrittenAnimation.animations["animation." \o ModelOutputName].loop
        /\ DOMAIN WrittenAnimationBones =
              {Lower(ModelDisplay[i].context) : i \in CarryingContexts}
        /\ \A i \in CarryingContexts :
              (\A j \in CarryingContexts :
                  j > i => Lower(ModelDisplay[j].context)
                              # Lower(ModelDisplay[i].context))
              => IsCopyOf(WrittenAnimationBones[Lower(ModelDisplay[i].context)],
                          ModelDisplay[i].transform)

\* C10 witness: a display map of two contexts, one with a rotation only and
\* one without any transform key, was converted into an animation of one
\* bone holding the rotation only.
C10_Witness ==
    /\ DisplayConverted /\ success
    /\ Len(ModelDisplay) = 2
    /\ Cardinality(CarryingContexts) = 1
    /\ \E i \in CarryingContexts :
          /\ DOMAIN ModelDisplay[i].transform = {"rotation"}
          /\ ModelDisplay[i].context = "GUI"
          /\ WrittenAnimationBones = ("gui" :> [rotation |-> <<1, 2, 3>>])

----------------------------------------------------------------------------
(* Properties of the pack conversion, checked under Spec *)

GeometryIdentifierIn(doc) == doc["minecraft:geometry"][1].description.identifier
AttachableIdentifierIn(doc) == doc["minecraft:attachable"].description.identifier

\* C7: two overrides on the same base item with distinct (integer)
\* custom_model_data values get distinct output names, each
\* item_name + "_cmd" + the decimal custom_model_data, hence distinct
\* geometry, attachable and render-controller identifiers and distinct output
\* file paths; when both are converted the identifiers written differ.
C7_DistinctCmdDistinctNames ==
    \A i, j \in DOMAIN processed :
        (/\ processed[i].item_name = processed[j].item_name
         /\ processed[i].custom_model_data # processed[j].custom_model_data) =>
            LET a == processed[i].output_name
                b == processed[j].output_name
            IN  /\ a # b
                /\ "geometry." \o a # "geometry." \o b
                /\ "custom:" \o a # "custom:" \o b
                /\ "controller.render." \o a # "controller.render." \o b
                /\ geo_file(a) # geo_file(b)
                /\ rc_file(a) # rc_file(b)
                /\ anim_file(a) # anim_file(b)
                /\ attachable_file(a) # attachable_file(b)
                /\ (/\ processed[i].outcome = "converted"
                    /\ processed[j].outcome = "converted") =>
                       /\ GeometryIdentifierIn(files[geo_file(a)])
                              # GeometryIdentifierIn(files[geo_file(b)])
                       /\ AttachableIdentifierIn(files[attachable_file(a)])
                              # AttachableIdentifierIn(files[attachable_file(b)])

\* C7 witness: the overrides 1 and 12 of the item stick were both converted,
\* under the names stick_cmd1 and stick_cmd12.
C7_Witness ==
    \E i, j \in DOMAIN processed :
        /\ processed[i].item_name = "stick"
        /\ processed[j].item_name = "stick"
        /\ processed[i].custom_model_data = 1
        /\ processed[j].custom_model_data = 12
        /\ processed[i].outcome = "converted"
        /\ processed[j].outcome = "converted"
        /\ processed[i].output_name = "stick_cmd1"
        /\ processed[j].output_name = "stick_cmd12"
        /\ {geo_file("stick_cmd1"), geo_file("stick_cmd12")} \subseteq DOMAIN files

\* C8: no two ConvertedItems share the same name (so no two mapping entries
\* share a bedrock_identifier and no artifact of one converted override is
\* overwritten by another).
C8_UniqueOutputNames ==
    \A i, j \in DOMAIN items_data :
        i # j => items_data[i].name # items_data[j].name

----------------------------------------------------------------------------
(* Cross-references of the artifacts, checked under Spec *)

\* The identifiers defined by the documents written for an output name
AnimationIdentifiersIn(doc) == DOMAIN doc["animations"]
ControllerIdentifiersIn(doc) == DOMAIN doc["render_controllers"]

\* The description of the attachable written for an output name
AttachableDescription(name) ==
    files[attachable_file(name)]["minecraft:attachable"].description

\* C11: for every converted override the four artifacts written for its
\* output name cross-reference consistently: the attachable has identifier
\* custom:<name> and names geometry.<name>, animation.<name> (slot wield) and
\* controller.render.<name>; the render controller binds geometry.<name>; and
\* each identifier named is the one the geometry, animation and
\* render-controller documents of that name define.
C11_CrossReferences ==
    \A i \in DOMAIN processed :
        processed[i].outcome = "converted" =>
            LET name == processed[i].output_name
                d == AttachableDescription(name)
                geometry == files[geo_file(name)]
                animation == files[anim_file(name)]
                controller == files[rc_file(name)]
            IN  /\ d.identifier = "custom:" \o name
                /\ d.geometry = [default |-> "geometry." \o name]
                /\ d.animations = [wield |-> "animation." \o name]
                /\ d.render_controllers = <<"controller.render." \o name>>
                /\ d.enable_attachables = TRUE
                /\ GeometryIdentifierIn(geometry) = d.geometry.default
                /\ AnimationIdentifiersIn(animation) = {d.animations.wield}
                /\ ControllerIdentifiersIn(controller)
                       = {d.render_controllers[1]}
                /\ controller["render_controllers"][d.render_controllers[1]]
                       .geometry = GeometryIdentifierIn(geometry)

\* C11 witness: two overrides were converted, one with the animation built
\* from its display and one with the default animation, and the four files
\* of each are written.
C11_Witness ==
    \E i, j \in DOMAIN processed :
        /\ processed[i].outcome = "converted"
        /\ processed[j].outcome = "converted"
        /\ processed[i].model = "custom:item/ruby"
        /\ processed[j].model = "item/plain"
        /\ processed[i].output_name # processed[j].output_name
        /\ \A n \in {processed[i].output_name, processed[j].output_name} :
               {geo_file(n), rc_file(n), anim_file(n), attachable_file(n)}
                   \subseteq DOMAIN files
        /\ files[anim_file(processed[j].output_name)]["animations"]
              ["animation." \o processed[j].output_name].bones = DefaultBones
        /\ files[anim_file(processed[i].output_name)]["animations"]
              ["animation." \o processed[i].output_name].bones # DefaultBones

----------------------------------------------------------------------------
(* Missing models, checked under Spec *)

\* The override the loop of process_custom_models is about to process
CurrentModelRef == cmd_items[item_idx].models[model_idx].model

\* Its model reference is a string that resolves to no existing file
CurrentIsMissing ==
    /\ pc = "process"
    /\ ~FindModelFileRaises(CurrentModelRef)
    /\ find_model_file(CurrentModelRef) = NoPath

\* The overrides processed so far whose model file was missing
MissingRefs(history) ==
    {history[i].model : i \in {j \in DOMAIN history :
                                  history[j].outcome = "missing"}}

\* The loop goes on to the next override, or ends after the last one
LoopContinues ==
    \/ /\ pc' = "process"
       /\ <<item_idx', model_idx'>> # <<item_idx, model_idx>>
    \/ /\ pc' = "mappings"
       /\ item_idx = Len(cmd_items)
       /\ model_idx = Len(cmd_items[item_idx].models)

\* C12: processing an override whose model reference resolves to a file that
\* does not exist writes no file and appends no ConvertedItem, adds the
\* reference to the missing-set and goes on with the next override; the
\* missing-set then holds exactly the distinct unresolved references seen so
\* far (a repeated reference does not grow it).
C12_MissingModelSkipped ==
    [][CurrentIsMissing =>
          /\ files' = files
          /\ items_data' = items_data
          /\ missing_models' = missing_models \cup {CurrentModelRef}
          /\ missing_models' = MissingRefs(processed')
          /\ Cardinality(missing_models') = Cardinality(MissingRefs(processed'))
          /\ (CurrentModelRef \in missing_models =>
                 Cardinality(missing_models') = Cardinality(missing_models))
          /\ LoopContinues]_vars

\* C12 witness: two overrides referencing the same nonexistent model and a
\* later one referencing another nonexistent model were processed, and the
\* missing-set holds the two distinct references.
C12_Witness ==
    \E i, j, k \in DOMAIN processed :
        /\ i < j /\ j < k
        /\ processed[i].outcome = "missing"
        /\ processed[j].outcome = "missing"
        /\ processed[i].model = processed[j].model
        /\ processed[k].outcome = "missing"
        /\ processed[k].model # processed[i].model
        /\ missing_models = {processed[i].model, processed[k].model}
        /\ Cardinality(missing_models) = 2

----------------------------------------------------------------------------
(* Properties of extract_texture_name, checked under SpecTexture *)

\* The textures object of the model file read, {} when it has none
TexturesOf(model) ==
    IF "textures" \in DOMAIN model THEN model["textures"] ELSE <<>>

HasKey(textures, key) == \E i \in DOMAIN textures : textures[i].key = key

ValueAt(textures, key) ==
    textures[CHOOSE i \in DOMAIN textures : textures[i].key = key].value

\* A reference with everything up to and including its first ":" removed;
\* a reference that cannot be read as a string gives "missing_texture"
Stripped(ref) ==
    CASE ref = NumberValue -> "missing_texture"
      [] ref = "custom:item/ruby" -> "item/ruby"
      [] ref = "a:b:c" -> "b:c"
      [] OTHER -> ref

\* The reference chosen by the presence of the keys
RefByPresence(textures) ==
    IF HasKey(textures, "layer0") THEN ValueAt(textures, "layer0")
    ELSE IF HasKey(textures, "0") THEN ValueAt(textures, "0")
         ELSE IF Len(textures) > 0 THEN textures[1].value ELSE ""

\* A key counts when it is present with a non-empty value
HasValue(textures, key) ==
    HasKey(textures, key) /\ ValueAt(textures, key) # ""

\* The reference chosen among the non-empty values
RefByValue(textures) ==
    IF HasValue(textures, "layer0") THEN ValueAt(textures, "layer0")
    ELSE IF HasValue(textures, "0") THEN ValueAt(textures, "0")
         ELSE IF Len(textures) > 0 THEN textures[1].value ELSE ""

----------------------------------------------------------------------------
(* Failed conversions, checked under SpecModel *)

\* The four artifact files of an output name
ArtifactFiles(name) ==
    {geo_file(name), rc_file(name), anim_file(name), attachable_file(name)}

\* C14: whenever convert_java_model_to_bedrock fails, none of the geometry,
\* render-controller, animation and attachable files of the output name has
\* been emitted by that conversion.
C14_AllOrNothing ==
    (model_pc = "done" /\ ~success) =>
        ArtifactFiles(ModelOutputName) \cap DOMAIN files = {}

----------------------------------------------------------------------------
(* Overrides that raise, checked under Spec *)

\* The number of overrides the scan produced
RECURSIVE NumScanned(_)
NumScanned(items) ==
    IF items = <<>> THEN 0
    ELSE Len(Head(items).models) + NumScanned(Tail(items))

\* C15: no override makes process_custom_models raise: the loop is never
\* left by an exception, and when convert() has ended every override the
\* scan produced was processed and the .mcpack step ran.
C15_BadOverrideNeverAborts ==
    /\ pc # "aborted"
    /\ \A i \in DOMAIN processed : processed[i].outcome # "raised"
    /\ pc \in {"mappings", "mcpack", "done"} =>
           Len(processed) = NumScanned(cmd_items)

----------------------------------------------------------------------------
(* Properties of main(), checked under SpecMain *)

\* C16: in --convert-all mode a pack whose convert() fails does not end the
\* batch: when main() returns without having been interrupted, convert() was
\* called for every ZIP file found in the input directory.
C16_EveryZipAttempted ==
    (/\ main_pc = "returned"
     /\ convert_all
     /\ raised # "KeyboardInterrupt") =>
        attempted = DOMAIN inputs

\* C17: the temporary directory of a ZIP input is gone whenever no
\* conversion is running (before the next pack begins, in the except
\* clauses and when main() has returned), whether the conversion ended by
\* success, by an exception or by a keyboard interruption; at most one
\* temporary directory exists at any time, it belongs to the pack being
\* converted, and a directory input never creates one.
C17_TempDirScoped ==
    /\ main_pc \in {"start", "enter", "except", "finished", "returned"} =>
           temp_dirs = {}
    /\ Cardinality(temp_dirs) <= 1
    /\ \A d \in temp_dirs : d = input_idx /\ inputs[d].kind = "zip"
    /\ (inputs # <<>> /\ inputs[input_idx].kind # "zip") => temp_dirs = {}

\* C17 witness: of three ZIP files the first was converted and the second
\* was interrupted from the keyboard after its extraction, which ended the
\* run; each had a temporary directory and none is left.
C17_Witness ==
    /\ main_pc = "returned"
    /\ convert_all
    /\ Len(inputs) = 3
    /\ input_idx = 2
    /\ attempted = {1, 2}
    /\ inputs[1].outcome = "ok"
    /\ raised = "KeyboardInterrupt"
    /\ temp_dir = 2
    /\ temp_dirs = {}
    /\ exit_code = 1

----------------------------------------------------------------------------
(* Properties of generate_geyser_mappings, checked under Spec *)

\* The mapping document written, once it is
MappingsWritten == pc \in {"mcpack", "done"} /\ mappings_file \in DOMAIN files

MappingItems == files[mappings_file].items

\* The ConvertedItems of a base item, in the order they were recorded
ItemsOfBase(base_item) ==
    LET HasBase(item) == item.base_item = base_item
    IN  SelectSeq(items_data, HasBase)

\* The sum of the lengths of the groups
RECURSIVE TotalEntries(_, _)
TotalEntries(groups, keys) ==
    IF keys = {} THEN 0
    ELSE LET k == CHOOSE x \in keys : TRUE
         IN  Len(groups[k]) + TotalEntries(groups, keys \ {k})

\* C18: generate_geyser_mappings groups the ConvertedItems under the key
\* "minecraft:" + base_item: the keys are those of the base items recorded,
\* the entries under a key are the ConvertedItems of that base item, one
\* each and in the order they were recorded, with custom_model_data
\* stringified, bedrock_identifier "custom:" + name, geometry
\* "geometry." + name and the texture copied; the entries are as many as
\* the ConvertedItems.
C18_MappingGroups ==
    MappingsWritten =>
        /\ files[mappings_file].format_version = 2
        /\ DOMAIN MappingItems =
              {"minecraft:" \o items_data[i].base_item : i \in DOMAIN items_data}
        /\ \A i \in DOMAIN items_data :
              LET base_item == items_data[i].base_item
                  group == MappingItems["minecraft:" \o base_item]
                  members == ItemsOfBase(base_item)
              IN  /\ Len(group) = Len(members)
                  /\ \A n \in DOMAIN members :
                        /\ group[n].custom_model_data
                              = Str(members[n].custom_model_data)
                        /\ group[n].bedrock_identifier
                              = "custom:" \o members[n].name
                        /\ group[n].geometry = "geometry." \o members[n].name
                        /\ group[n].texture = members[n].texture
        /\ TotalEntries(MappingItems, DOMAIN MappingItems) = Len(items_data)

\* C18 witness: the mapping was written for three ConvertedItems, two of
\* the item stick with different custom_model_data and one of the item bow.
C18_Witness ==
    /\ MappingsWritten
    /\ Len(items_data) = 3
    /\ DOMAIN MappingItems = {"minecraft:stick", "minecraft:bow"}
    /\ Len(MappingItems["minecraft:stick"]) = 2
    /\ MappingItems["minecraft:stick"][1].custom_model_data
          # MappingItems["minecraft:stick"][2].custom_model_data
    /\ Len(MappingItems["minecraft:bow"]) = 1

\* C19: every conversion that completes has written geyser_mappings.json,
\* of the form {format_version: 2, items: {...}}, into the Bedrock pack
\* before the .mcpack archive was created, also when the pack has no
\* qualifying override or when every override was skipped or failed.
C19_MappingsAlwaysWritten ==
    pc = "done" =>
        /\ mappings_file \in DOMAIN files
        /\ mappings_file \in mcpack
        /\ DOMAIN files[mappings_file] = {"format_version", "items"}
        /\ files[mappings_file].format_version = 2

----------------------------------------------------------------------------
(* The outcomes of the overrides, checked under Spec *)

\* The overrides processed so far that were converted, in order
ConvertedSoFar ==
    LET IsConverted(p) == p.outcome = "converted"
    IN  SelectSeq(processed, IsConverted)

\* Every override taken up by the loop ended as converted, missing or failed
OneOfThreeOutcomes ==
    \A i \in DOMAIN processed :
        processed[i].outcome \in {"converted", "missing", "failed"}

\* A ConvertedItem is recorded exactly for the overrides whose model file
\* was found and whose conversion returned success
ConvertedItemIffSuccess ==
    /\ Len(items_data) = Len(ConvertedSoFar)
    /\ \A i \in DOMAIN items_data :
          /\ items_data[i].name = ConvertedSoFar[i].output_name
          /\ items_data[i].base_item = ConvertedSoFar[i].item_name
          /\ items_data[i].custom_model_data
                = ConvertedSoFar[i].custom_model_data
          /\ find_model_file(ConvertedSoFar[i].model) # NoPath

\* The four artifact files of every ConvertedItem are written
ArtifactsOfConvertedItems ==
    \A i \in DOMAIN items_data :
        ArtifactFiles(items_data[i].name) \subseteq DOMAIN files

\* ConvertedItems are appended, never modified or removed
AppendOnly ==
    /\ Len(items_data') >= Len(items_data)
    /\ SubSeq(items_data', 1, Len(items_data)) = items_data

\* C20: after any sequence of processed overrides every override taken up
\* is in exactly one of the outcomes converted, missing model and failed
\* conversion; a ConvertedItem is recorded if and only if the model file was
\* found and the conversion returned success; the four artifact files of
\* every ConvertedItem are written; ConvertedItems are only appended.
C20_ThreeOutcomes ==
    /\ [](OneOfThreeOutcomes /\ ConvertedItemIffSuccess
            /\ ArtifactsOfConvertedItems)
    /\ [][AppendOnly]_vars

\* What holds of C20 in every run, the outcome of a raising override aside
C20_ExceptRaisingOverride ==
    /\ [](ConvertedItemIffSuccess /\ ArtifactsOfConvertedItems)
    /\ [][AppendOnly]_vars

====
